---------------------------- MODULE Spec2Model ----------------------------
(***************************************************************************)
(* A model of two Vue components of GUI.for.SingBox:                       *)
(*   - ScheduledTaskForm.vue: the form that creates or edits a scheduled    *)
(*     task (handleSubmit, handleUse, the modal's cancel/submit buttons);  *)
(*   - the CodeMirror editor wrapper (formatDoc, initEditor, the theme     *)
(*     watcher, onMounted / onUnmounted).                                  *)
(* Three specifications share the module: SpecForm, SpecEditor, SpecUse.   *)
(***************************************************************************)
EXTENDS Integers, Sequences, FiniteSets, TLC

VARIABLES
    \* ---- ScheduledTaskForm.vue ----
    propsId,        \* props.id: NoId when the form creates a task
    task,           \* task.value
    shared,         \* task.value is the very object the store holds under props.id
    loading,        \* loading.value
    pc,             \* position of each handleSubmit invocation
    cronArg,        \* the string each invocation awaits ValidateCron for
    sent,           \* the task of each invocation's pending add/editScheduledTask call
    passed,         \* the strings ValidateCron has resolved for
    subscribes,     \* ids held by subscribesStore.subscribes
    rulesets,       \* ids held by rulesetsStore.rulesets
    plugins,        \* ids held by pluginsStore.plugins
    scheduledtasks, \* records held by scheduledTasksStore
    messages,       \* number of message.error calls
    open,           \* the modal showing the form is open
    closedBy,       \* the handleSubmit invocations that called handleCancel
    events,         \* user edits and store removals so far
    \* ---- handleUse on its own ----
    list,           \* the array handleUse works on
    list0,          \* the array before the first call
    toggles,        \* per id, the parity of the calls made with it
    prevList,       \* the array before the latest call
    prevId,         \* the id of the latest call
    \* ---- the editor component ----
    mode,           \* props.mode
    model,          \* the v-model value the parent provides
    themeMode,      \* appSettings.themeMode
    phase,          \* the component's lifecycle: created, mounted, unmounted
    timer,          \* the setTimeout of onMounted is pending
    view,           \* which of editorView / mergeView initEditor has set
    viewTheme,      \* the theme the view's themeCompartment is configured with
    destroyed,      \* destroy() was called on the view
    doc,            \* the document of the (editable) view
    pending,        \* the contents captured by the formatDoc calls in flight
    lastFormat,     \* how the latest formatDoc call ended
    faults          \* the handlers that threw a TypeError on a missing view or element

formVars == <<propsId, task, shared, loading, pc, cronArg, sent, passed, subscribes,
              rulesets, plugins, scheduledtasks, messages, open, closedBy, events>>
useVars == <<list, list0, toggles, prevList, prevId>>
editorVars == <<mode, model, themeMode, phase, timer, view, viewTheme, destroyed, doc,
                pending, lastFormat, faults>>
vars == <<formVars, useVars, editorVars>>

----------------------------------------------------------------------------
(* Bounds *)

\* handleSubmit invocations (clicks on the submit button) per form instance
MaxSubmits == 2
\* events around a form instance while it lives: user edits of its fields and
\* items leaving the stores' collections
MaxEvents == 2
\* length of the array handleUse starts from
MaxLen == 2
\* length of the editor's document
MaxDoc == 2
\* formatDoc calls in flight
MaxPending == 1

----------------------------------------------------------------------------
(* Values *)

NoId == "none"
Names == {"", "n"}
Crons == {"", "c1", "x"}
SubIds == {"s1", "s2"}
RuleIds == {"r1"}
PluginIds == {"p1"}
Types == {"RunScript", "UpdateSubscription", "UpdateRuleset", "UpdatePlugin", "RunPlugin"}
Submits == 1..MaxSubmits
\* the types of the task the store holds when the form opens
StoredTypes == Types

Range(s) == {s[k] : k \in 1..Len(s)}

\* Array.prototype.filter with the predicate "v is in keep"
RECURSIVE Filter(_, _)
Filter(s, keep) ==
    IF s = <<>> THEN <<>>
    ELSE (IF Head(s) \in keep THEN <<Head(s)>> ELSE <<>>) \o Filter(Tail(s), keep)

\* Array.prototype.findIndex(v => v === id), 0 standing for -1
FindIndex(s, id) ==
    IF \E k \in 1..Len(s) : s[k] = id
    THEN CHOOSE k \in 1..Len(s) : s[k] = id /\ \A j \in 1..(k - 1) : s[j] # id
    ELSE 0

\* Array.prototype.splice(idx, 1)
Splice1(s, idx) == SubSeq(s, 1, idx - 1) \o SubSeq(s, idx + 1, Len(s))

\* handleUse(list, id): the array after the call
handleUseAlwaysPushes(l, id) == Append(l, id)

handleUse(l, id) ==
    LET idx == FindIndex(l, id)
    IN IF idx # 0 THEN Splice1(l, idx) ELSE Append(l, id)

----------------------------------------------------------------------------
(* ScheduledTaskForm.vue *)

\* The record task.value starts as (script, notification, disabled and lastTime
\* are carried along unread by the form's handlers and are left out).
DefaultTask ==
    [id |-> "new", name |-> "", type |-> "RunScript", subscriptions |-> <<>>,
     rulesets |-> <<>>, plugins |-> <<>>, cron |-> ""]

\* Stands for undefined where a task is expected.
NoTask == [DefaultTask EXCEPT !.id = "none"]

\* A task saved earlier, as the store holds it when the form opens.
StoredTask(ty) ==
    [id |-> "t1", name |-> "n", type |-> ty, subscriptions |-> <<"s1", "s2">>,
     rulesets |-> <<"r1">>, plugins |-> <<"p1">>, cron |-> "c1"]

\* ValidateCron(cron) resolves for these strings and rejects for the others.
ValidCron(c) == c = "c1"

\* scheduledTasksStore.getScheduledTaskById(id); NoTask for undefined
getScheduledTaskById(store, id) ==
    IF \E k \in 1..Len(store) : store[k].id = id
    THEN store[FindIndex([k \in 1..Len(store) |-> store[k].id], id)]
    ELSE NoTask

\* deepClone(s): an equal record in a fresh object
deepClone(s) == [t |-> s, shared |-> FALSE]

\* The task initialisation at setup: the clone of the stored task when props.id
\* names one, else the default record.
SetupTaskNoClone(store, id) ==
    IF id # NoId /\ getScheduledTaskById(store, id) # NoTask
    THEN [t |-> getScheduledTaskById(store, id), shared |-> TRUE]
    ELSE [t |-> DefaultTask, shared |-> FALSE]

SetupTask(store, id) ==
    IF id # NoId /\ getScheduledTaskById(store, id) # NoTask
    THEN deepClone(getScheduledTaskById(store, id))
    ELSE [t |-> DefaultTask, shared |-> FALSE]

\* The store's records with the one under id replaced by t.
Replaced(store, id, t) ==
    [k \in 1..Len(store) |-> IF store[k].id = id THEN t ELSE store[k]]

\* A write to task.value: it reaches the store's record only when the two are
\* the same object.
WriteTask(t) ==
    /\ task' = t
    /\ scheduledtasks' = IF shared THEN Replaced(scheduledtasks, propsId, t)
                         ELSE scheduledtasks

\* The switch of handleSubmit: the list that belongs to the task's type is
\* filtered against the store's collection.
FilterNothing(t, subs, rules, plugs) == t

FilterByType(t, subs, rules, plugs) ==
    CASE t.type = "UpdateSubscription" ->
            [t EXCEPT !.subscriptions = Filter(t.subscriptions, subs)]
      [] t.type = "UpdateRuleset" ->
            [t EXCEPT !.rulesets = Filter(t.rulesets, rules)]
      [] t.type \in {"UpdatePlugin", "RunPlugin"} ->
            [t EXCEPT !.plugins = Filter(t.plugins, plugs)]
      [] OTHER -> t

\* The submit button: disabled: !task.value.name || !task.value.cron, and a
\* Button in its loading state takes no click.
SubmitEnabled == task.name # "" /\ task.cron # "" /\ ~loading

UseIdle ==
    /\ list = <<>>
    /\ list0 = <<>>
    /\ toggles = <<>>
    /\ prevList = <<>>
    /\ prevId = NoId

EditorIdle ==
    /\ mode = "editor"
    /\ model = <<>>
    /\ themeMode = "light"
    /\ phase = "created"
    /\ timer = FALSE
    /\ view = "none"
    /\ viewTheme = "none"
    /\ destroyed = FALSE
    /\ doc = <<>>
    /\ pending = {}
    /\ lastFormat = "none"
    /\ faults = {}

InitForm ==
    /\ propsId \in {NoId, "t1"}
    /\ \E ty \in StoredTypes : /\ scheduledtasks = <<StoredTask(ty)>>
                              /\ (propsId = NoId => ty = "UpdateSubscription")
    /\ task = SetupTask(scheduledtasks, propsId).t
    /\ shared = SetupTask(scheduledtasks, propsId).shared
    /\ loading = FALSE
    /\ pc = [i \in Submits |-> "idle"]
    /\ cronArg = [i \in Submits |-> ""]
    /\ sent = [i \in Submits |-> NoTask]
    /\ passed = {}
    /\ subscribes = SubIds
    /\ rulesets = RuleIds
    /\ plugins = PluginIds
    /\ messages = 0
    /\ open = TRUE
    /\ closedBy = {}
    /\ events = 0
    /\ UseIdle
    /\ EditorIdle

formFrame == UNCHANGED <<propsId, shared, subscribes, rulesets, plugins>>

\* <Input v-model="task.name">
EditName(v) ==
    /\ open /\ events < MaxEvents /\ v # task.name
    /\ WriteTask([task EXCEPT !.name = v])
    /\ events' = events + 1
    /\ formFrame
    /\ UNCHANGED <<loading, pc, cronArg, sent, passed, messages, open, closedBy, useVars, editorVars>>

\* <Input v-model="task.cron">
EditCron(v) ==
    /\ open /\ events < MaxEvents /\ v # task.cron
    /\ WriteTask([task EXCEPT !.cron = v])
    /\ events' = events + 1
    /\ formFrame
    /\ UNCHANGED <<loading, pc, cronArg, sent, passed, messages, open, closedBy, useVars, editorVars>>

\* <Radio v-model="task.type">
EditType(v) ==
    /\ open /\ events < MaxEvents /\ v # task.type
    /\ WriteTask([task EXCEPT !.type = v])
    /\ events' = events + 1
    /\ formFrame
    /\ UNCHANGED <<loading, pc, cronArg, sent, passed, messages, open, closedBy, useVars, editorVars>>

\* A click on a Card: the section shown is the one of the task's type, and its
\* cards are the items the store holds.
ClickCard(id) ==
    /\ open /\ events < MaxEvents
    /\ \/ /\ task.type = "UpdateSubscription" /\ id \in subscribes
          /\ WriteTask([task EXCEPT !.subscriptions = handleUse(task.subscriptions, id)])
       \/ /\ task.type = "UpdateRuleset" /\ id \in rulesets
          /\ WriteTask([task EXCEPT !.rulesets = handleUse(task.rulesets, id)])
       \/ /\ task.type \in {"UpdatePlugin", "RunPlugin"} /\ id \in plugins
          /\ WriteTask([task EXCEPT !.plugins = handleUse(task.plugins, id)])
    /\ events' = events + 1
    /\ formFrame
    /\ UNCHANGED <<loading, pc, cronArg, sent, passed, messages, open, closedBy, useVars, editorVars>>

\* A click on the submit button: handleSubmit runs up to await ValidateCron.
ClickSubmit(i) ==
    /\ open /\ SubmitEnabled
    /\ pc[i] = "idle" /\ \A j \in 1..(i - 1) : pc[j] # "idle"
    /\ pc' = [pc EXCEPT ![i] = "validating"]
    /\ cronArg' = [cronArg EXCEPT ![i] = task.cron]
    /\ formFrame
    /\ UNCHANGED <<task, scheduledtasks, loading, sent, passed, messages, open, closedBy,
                   events, useVars, editorVars>>

\* ValidateCron rejects: message.error(error); return
ValidateRejectsFallsThrough(i) ==
    /\ pc[i] = "validating" /\ ~ValidCron(cronArg[i])
    /\ messages' = messages + 1
    /\ loading' = TRUE
    /\ WriteTask(FilterByType(task, subscribes, rulesets, plugins))
    /\ sent' = [sent EXCEPT ![i] = task']
    /\ pc' = [pc EXCEPT ![i] = "saving"]
    /\ cronArg' = [cronArg EXCEPT ![i] = ""]
    /\ formFrame
    /\ UNCHANGED <<passed, open, closedBy, events, useVars, editorVars>>

ValidateRejects(i) ==
    /\ pc[i] = "validating" /\ ~ValidCron(cronArg[i])
    /\ messages' = messages + 1
    /\ pc' = [pc EXCEPT ![i] = "rejected"]
    /\ cronArg' = [cronArg EXCEPT ![i] = ""]
    /\ formFrame
    /\ UNCHANGED <<task, scheduledtasks, loading, sent, passed, open, closedBy,
                   events, useVars, editorVars>>

\* ValidateCron resolves: loading.value = true, the switch, and the call of
\* editScheduledTask(props.id, task.value) or addScheduledTask(task.value).
ValidateResolves(i) ==
    /\ pc[i] = "validating" /\ ValidCron(cronArg[i])
    /\ passed' = passed \cup {cronArg[i]}
    /\ loading' = TRUE
    /\ WriteTask(FilterByType(task, subscribes, rulesets, plugins))
    /\ sent' = [sent EXCEPT ![i] = task']
    /\ pc' = [pc EXCEPT ![i] = "saving"]
    /\ cronArg' = [cronArg EXCEPT ![i] = ""]
    /\ formFrame
    /\ UNCHANGED <<messages, open, closedBy, events, useVars, editorVars>>

\* The store's effect once the call resolves: edit replaces the record under
\* the id, add appends the record.
StoreEffect(store, id, t) ==
    IF id # NoId THEN Replaced(store, id, t) ELSE Append(store, t)

\* The store call resolves: handleCancel(); loading.value = false
StoreResolves(i) ==
    /\ pc[i] = "saving"
    /\ scheduledtasks' = StoreEffect(scheduledtasks, propsId, sent[i])
    /\ open' = FALSE
    /\ closedBy' = closedBy \cup {i}
    /\ loading' = FALSE
    /\ pc' = [pc EXCEPT ![i] = "saved"]
    /\ sent' = [sent EXCEPT ![i] = NoTask]
    /\ formFrame
    /\ UNCHANGED <<task, cronArg, passed, messages, events, useVars, editorVars>>

\* The store call rejects: message.error(error); loading.value = false
StoreRejectsKeepsLoading(i) ==
    /\ pc[i] = "saving"
    /\ messages' = messages + 1
    /\ pc' = [pc EXCEPT ![i] = "failed"]
    /\ sent' = [sent EXCEPT ![i] = NoTask]
    /\ formFrame
    /\ UNCHANGED <<task, scheduledtasks, loading, cronArg, passed, open, closedBy,
                   events, useVars, editorVars>>

StoreRejects(i) ==
    /\ pc[i] = "saving"
    /\ messages' = messages + 1
    /\ loading' = FALSE
    /\ pc' = [pc EXCEPT ![i] = "failed"]
    /\ sent' = [sent EXCEPT ![i] = NoTask]
    /\ formFrame
    /\ UNCHANGED <<task, scheduledtasks, cronArg, passed, open, closedBy, events,
                   useVars, editorVars>>

\* A click on the cancel button (disabled: loading.value): handleCancel()
ClickCancel ==
    /\ open /\ ~loading
    /\ open' = FALSE
    /\ formFrame
    /\ UNCHANGED <<task, scheduledtasks, loading, pc, cronArg, sent, passed, messages,
                   closedBy, events, useVars, editorVars>>

\* An item leaves one of the stores' collections while the form is open.
ItemRemoved(id) ==
    /\ events < MaxEvents
    /\ id \in subscribes \cup rulesets \cup plugins
    /\ events' = events + 1
    /\ subscribes' = subscribes \ {id}
    /\ rulesets' = rulesets \ {id}
    /\ plugins' = plugins \ {id}
    /\ UNCHANGED <<propsId, shared, task, scheduledtasks, loading, pc, cronArg, sent,
                   passed, messages, open, closedBy, useVars, editorVars>>

NextForm ==
    \/ \E v \in Names : EditName(v)
    \/ \E v \in Crons : EditCron(v)
    \/ \E v \in Types : EditType(v)
    \/ \E id \in SubIds \cup RuleIds \cup PluginIds : ClickCard(id)
    \/ \E i \in Submits : ClickSubmit(i)
    \/ \E i \in Submits : ValidateRejects(i)
    \/ \E i \in Submits : ValidateResolves(i)
    \/ \E i \in Submits : StoreResolves(i)
    \/ \E i \in Submits : StoreRejects(i)
    \/ ClickCancel
    \/ \E id \in SubIds \cup RuleIds \cup PluginIds : ItemRemoved(id)

SpecForm == InitForm /\ [][NextForm]_vars


----------------------------------------------------------------------------
(* Properties of the form *)

Saving == {i \in Submits : pc[i] = "saving"}

\* handleSubmit invocation i makes its add/edit call in this step.
Calls(i) == pc[i] = "validating" /\ pc'[i] = "saving"

\* C1: the cron string of a task handed to addScheduledTask / editScheduledTask
\* has passed ValidateCron, whatever edits of the cron field happened while
\* ValidateCron was pending.
C1_SavedCronPassedValidation ==
    \A i \in Saving : sent[i].cron \in passed

\* C2 as stated: at the call, every id of all three lists exists in its store
\* collection, whatever the task's type.
C2_AllListsFiltered ==
    [][\A i \in Submits : Calls(i) =>
            /\ Range(sent'[i].subscriptions) \subseteq subscribes'
            /\ Range(sent'[i].rulesets) \subseteq rulesets'
            /\ Range(sent'[i].plugins) \subseteq plugins']_vars

\* C2 (amended): at the call, every id of the list that belongs to the task's
\* type (subscriptions for UpdateSubscription, rulesets for UpdateRuleset,
\* plugins for UpdatePlugin and RunPlugin) exists in its store collection; the
\* other lists are handed on as they are.
C2_ListOfTypeFiltered ==
    [][\A i \in Submits : Calls(i) =>
            /\ sent'[i].type = "UpdateSubscription" =>
                    /\ Range(sent'[i].subscriptions) \subseteq subscribes'
                    /\ sent'[i].subscriptions = Filter(task.subscriptions, subscribes)
            /\ sent'[i].type = "UpdateRuleset" =>
                    /\ Range(sent'[i].rulesets) \subseteq rulesets'
                    /\ sent'[i].rulesets = Filter(task.rulesets, rulesets)
            /\ sent'[i].type \in {"UpdatePlugin", "RunPlugin"} =>
                    /\ Range(sent'[i].plugins) \subseteq plugins'
                    /\ sent'[i].plugins = Filter(task.plugins, plugins)
            /\ sent'[i].type # "UpdateSubscription" =>
                    sent'[i].subscriptions = task.subscriptions
            /\ sent'[i].type # "UpdateRuleset" => sent'[i].rulesets = task.rulesets
            /\ sent'[i].type \notin {"UpdatePlugin", "RunPlugin"} =>
                    sent'[i].plugins = task.plugins]_vars

\* A call is pending whose subscription list lost the removed "s1" and kept
\* "s2": the removal is the only event, so the filter is what dropped "s1".
C2_Witness ==
    \E i \in Saving :
        /\ propsId = "t1"
        /\ events = 1
        /\ sent[i].type = "UpdateSubscription"
        /\ sent[i].subscriptions = <<"s2">>
        /\ subscribes = {"s2"}

\* C3: when ValidateCron rejects, the error goes to message.error and the
\* submit ends: no store call, loading untouched, no list filtered, the form
\* not closed.
C3_RejectedValidationEndsSubmit ==
    [][\A i \in Submits :
            (pc[i] = "validating" /\ ~ValidCron(cronArg[i]) /\ pc'[i] # pc[i]) =>
                /\ pc'[i] = "rejected"
                /\ messages' = messages + 1
                /\ loading' = loading
                /\ task' = task
                /\ sent' = sent
                /\ scheduledtasks' = scheduledtasks
                /\ open' = open
                /\ closedBy' = closedBy
                /\ \A j \in Submits : pc'[j] = "saving" => pc[j] = "saving"]_vars

\* A submit ended on a rejected validation, the form still open.
C3_Witness ==
    \E i \in Submits : pc[i] = "rejected" /\ open /\ messages >= 1

\* C4: a submit calls handleCancel only as its store call resolves; when the
\* store call rejects, the error goes to message.error, the form is not
\* closed, no store call is made again, and loading is false as handleSubmit
\* ends.
C4_CloseOnlyAfterSave ==
    [][/\ closedBy' # closedBy =>
            \E i \in Submits : /\ pc[i] = "saving" /\ pc'[i] = "saved"
                               /\ closedBy' = closedBy \cup {i}
       /\ \A i \in Submits :
            (pc[i] = "saving" /\ pc'[i] = "failed") =>
                /\ messages' = messages + 1
                /\ open' = open
                /\ closedBy' = closedBy
                /\ scheduledtasks' = scheduledtasks
                /\ \A j \in Submits : pc'[j] = "saving" => pc[j] = "saving"
                /\ loading' = FALSE
       /\ \A i \in Submits :
            (pc[i] = "saving" /\ pc'[i] = "saved") => loading' = FALSE /\ open' = FALSE]_vars

\* A store call has rejected: the form is open and loading is false.
C4_Witness ==
    \E i \in Submits : pc[i] = "failed" /\ open /\ ~loading /\ closedBy = {}

\* C5: at most one add/edit call of a form instance is in flight, and loading
\* is true while one is, given that the submit button takes a click only when
\* name and cron are non-empty and loading is false.
C5_OneCallInFlight ==
    /\ Cardinality(Saving) <= 1
    /\ Saving # {} => loading

\* C6: no task with an empty name or an empty cron is handed to
\* addScheduledTask / editScheduledTask, also when the fields are edited while
\* ValidateCron is pending.
C6_SavedTaskHasNameAndCron ==
    \A i \in Saving : sent[i].name # "" /\ sent[i].cron # ""

\* C7: the store's task records change only through the add/edit call of a
\* submit: field edits, handleUse toggles, a submit whose validation fails and
\* cancelling work on the clone and leave the stored record as it was.
C7_StoreChangesOnlyBySave ==
    [][scheduledtasks' # scheduledtasks =>
            \E i \in Submits :
                /\ pc[i] = "saving" /\ pc'[i] = "saved"
                /\ scheduledtasks' = StoreEffect(scheduledtasks, propsId, sent[i])]_vars

\* A form opened on the stored task was edited and then cancelled: the stored
\* record is the one the form started from.
C7_Witness ==
    /\ propsId = "t1"
    /\ ~open /\ closedBy = {}
    /\ \A i \in Submits : pc[i] \in {"idle", "rejected"}
    /\ \E ty \in StoredTypes : scheduledtasks = <<StoredTask(ty)>>
    /\ task # scheduledtasks[1]
    /\ events >= 1

----------------------------------------------------------------------------
(* handleUse on its own *)

UseIds == {"a", "b", "c"}

\* duplicate-free arrays over ids, of length at most n
NoDup(s) == \A j, k \in 1..Len(s) : j # k => s[j] # s[k]
DupFree(ids, n) ==
    UNION {{s \in [1..k -> ids] : NoDup(s)} : k \in 0..n}

FormIdle ==
    /\ propsId = NoId
    /\ scheduledtasks = <<StoredTask("UpdateSubscription")>>
    /\ task = DefaultTask
    /\ shared = FALSE
    /\ loading = FALSE
    /\ pc = [i \in Submits |-> "idle"]
    /\ cronArg = [i \in Submits |-> ""]
    /\ sent = [i \in Submits |-> NoTask]
    /\ passed = {}
    /\ subscribes = SubIds
    /\ rulesets = RuleIds
    /\ plugins = PluginIds
    /\ messages = 0
    /\ open = TRUE
    /\ closedBy = {}
    /\ events = 0

InitUse ==
    /\ list0 \in DupFree(UseIds, MaxLen)
    /\ list = list0
    /\ toggles = [id \in UseIds |-> 0]
    /\ prevList = list0
    /\ prevId = NoId
    /\ FormIdle
    /\ EditorIdle

\* one call handleUse(list, id)
UseCall(id) ==
    /\ list' = handleUse(list, id)
    /\ prevList' = list
    /\ prevId' = id
    /\ toggles' = [toggles EXCEPT ![id] = 1 - @]
    /\ UNCHANGED <<list0, formVars, editorVars>>

NextUse == \E id \in UseIds : UseCall(id)

SpecUse == InitUse /\ [][NextUse]_vars

\* C10: from a duplicate-free array, after any calls the array is duplicate-free
\* and holds exactly the ids initially present and toggled an even number of
\* times or initially absent and toggled an odd number of times; a call
\* changes the membership of its id only, keeps the order of the other ids, and
\* two consecutive calls with one id restore the set of ids.
C10_HandleUseToggles ==
    /\ [](/\ NoDup(list)
          /\ Range(list) = {id \in UseIds : (id \in Range(list0)) # (toggles[id] = 1)})
    /\ [][/\ (prevId' \in Range(list')) # (prevId' \in Range(list))
          /\ Filter(list', UseIds \ {prevId'}) = Filter(list, UseIds \ {prevId'})
          /\ (prevId' = prevId => Range(list') = Range(prevList))]_vars

\* Two consecutive calls with an id that was present brought the set of ids back,
\* the id now at the end of the array.
C10_Witness ==
    /\ prevId = "a"
    /\ toggles["a"] = 0
    /\ list0 = <<"a", "b">>
    /\ list = <<"b", "a">>
    /\ prevList = <<"b">>

----------------------------------------------------------------------------
(* The editor component *)

\* The characters of a document: a token, a blank, and a character no parser
\* accepts.
Chars == {"a", "_", "!"}
Docs == UNION {[1..k -> Chars] : k \in 0..MaxDoc}
Themes == {"light", "dark"}

\* prettier.formatWithCursor throws on a document it cannot parse.
FormatFails(s) == "!" \in Range(s)

\* The formatter's output: runs of blanks become one blank, and blanks at the
\* two ends go.
RECURSIVE Collapse(_)
Collapse(s) ==
    IF Len(s) <= 1 THEN s
    ELSE IF s[1] = "_" /\ s[2] = "_" THEN Collapse(Tail(s))
    ELSE <<s[1]>> \o Collapse(Tail(s))

TrimEnds(s) ==
    LET l == IF s # <<>> /\ Head(s) = "_" THEN Tail(s) ELSE s
    IN IF l # <<>> /\ l[Len(l)] = "_" THEN SubSeq(l, 1, Len(l) - 1) ELSE l

Format(s) == TrimEnds(Collapse(s))

\* view.dispatch({changes: {from: 0, to, insert}}) on document d; the change
\* is refused (a RangeError) when `to` lies beyond the document.
DispatchRefused(d, to) == to > Len(d)
Dispatched(d, to, insert) == insert \o SubSeq(d, to + 1, Len(d))

InitEditor ==
    /\ mode \in {"editor", "diff"}
    /\ model \in Docs
    /\ themeMode \in Themes
    /\ phase = "created"
    /\ timer = FALSE
    /\ view = "none"
    /\ viewTheme = "none"
    /\ destroyed = FALSE
    /\ doc = <<>>
    /\ pending = {}
    /\ lastFormat = "none"
    /\ faults = {}
    /\ FormIdle
    /\ UseIdle

\* onMounted(() => setTimeout(() => initEditor(), 100))
Mount ==
    /\ phase = "created"
    /\ phase' = "mounted"
    /\ timer' = TRUE
    /\ UNCHANGED <<mode, model, themeMode, view, viewTheme, destroyed, doc, pending,
                   lastFormat, faults, formVars, useVars>>

\* The timeout fires: initEditor(). domRef.value is null once the component
\* is unmounted, and domRef.value!.innerHTML then throws.
TimerFires ==
    /\ timer
    /\ timer' = FALSE
    /\ IF phase = "unmounted"
       THEN /\ faults' = faults \cup {"initEditor"}
            /\ UNCHANGED <<view, viewTheme, doc>>
       ELSE /\ view' = IF mode = "editor" THEN "editor" ELSE "merge"
            /\ viewTheme' = themeMode
            /\ doc' = model
            /\ UNCHANGED faults
    /\ UNCHANGED <<mode, model, themeMode, phase, destroyed, pending, lastFormat,
                   formVars, useVars>>

\* watch(() => appSettings.themeMode, ...): editorView ? [editorView] :
\* [mergeView.a, mergeView.b] throws when neither view is set.
ThemeChanges(t) ==
    /\ phase = "mounted"
    /\ t # themeMode
    /\ themeMode' = t
    /\ IF view = "none"
       THEN faults' = faults \cup {"themeWatcher"} /\ UNCHANGED viewTheme
       ELSE viewTheme' = t /\ UNCHANGED faults
    /\ UNCHANGED <<mode, model, phase, timer, view, destroyed, doc, pending, lastFormat,
                   formVars, useVars>>

\* onUnmounted(() => (editorView || mergeView).destroy()); the timeout of
\* onMounted is not cleared.
Unmount ==
    /\ phase = "mounted"
    /\ phase' = "unmounted"
    /\ IF view = "none"
       THEN faults' = faults \cup {"onUnmounted"} /\ UNCHANGED destroyed
       ELSE destroyed' = TRUE /\ UNCHANGED faults
    /\ UNCHANGED <<mode, model, themeMode, timer, view, viewTheme, doc, pending,
                   lastFormat, formVars, useVars>>

\* watch(model, ...): the parent sets the v-model value; the view, when there
\* is one and its document differs, gets the new content.
ModelChanges(c) ==
    /\ phase \in {"created", "mounted"}
    /\ c # model
    /\ model' = c
    /\ doc' = IF view # "none" /\ c # doc THEN c ELSE doc
    /\ UNCHANGED <<mode, themeMode, phase, timer, view, viewTheme, destroyed, pending,
                   lastFormat, faults, formVars, useVars>>

\* The user types a character at the end of the document or deletes the last.
UserEdits(d) ==
    /\ phase = "mounted" /\ view # "none"
    /\ \/ \E ch \in Chars : d = Append(doc, ch)
       \/ doc # <<>> /\ d = SubSeq(doc, 1, Len(doc) - 1)
    /\ doc' = d
    /\ UNCHANGED <<mode, model, themeMode, phase, timer, view, viewTheme, destroyed,
                   pending, lastFormat, faults, formVars, useVars>>

\* Shift-Alt-f: formatDoc(view) runs up to await prettier.formatWithCursor,
\* holding the content it read.
FormatStarts ==
    /\ phase = "mounted" /\ view # "none"
    /\ Cardinality(pending) < MaxPending
    /\ doc \notin pending
    /\ pending' = pending \cup {doc}
    /\ UNCHANGED <<mode, model, themeMode, phase, timer, view, viewTheme, destroyed, doc,
                   lastFormat, faults, formVars, useVars>>

\* The formatter settles for the call that read content c: on an output that
\* differs from c, the range 0..c.length of the document is replaced by it.
FormatSettles(c) ==
    /\ c \in pending
    /\ pending' = pending \ {c}
    /\ IF FormatFails(c)
       THEN lastFormat' = "failed" /\ UNCHANGED doc
       ELSE IF Format(c) = c
       THEN lastFormat' = "same" /\ UNCHANGED doc
       ELSE IF DispatchRefused(doc, Len(c))
       THEN lastFormat' = "refused" /\ UNCHANGED doc
       ELSE lastFormat' = "dispatched" /\ doc' = Dispatched(doc, Len(c), Format(c))
    /\ UNCHANGED <<mode, model, themeMode, phase, timer, view, viewTheme, destroyed,
                   faults, formVars, useVars>>

NextEditor ==
    \/ Mount
    \/ TimerFires
    \/ \E t \in Themes : ThemeChanges(t)
    \/ Unmount
    \/ \E c \in Docs : ModelChanges(c)
    \/ \E d \in Docs : UserEdits(d)
    \/ FormatStarts
    \/ \E c \in Docs : FormatSettles(c)

SpecEditor == InitEditor /\ [][NextEditor]_vars

\* C8: the unmount handler and the theme watcher only ever work on a view that
\* initEditor has created, and initEditor only runs while the component is
\* mounted, in every order of mount, the delayed initEditor, theme changes and
\* unmount.
C8_HandlersFindTheirView ==
    /\ "onUnmounted" \notin faults
    /\ "themeWatcher" \notin faults
    /\ "initEditor" \notin faults

\* C9: after formatDoc dispatches its change, the document is the formatter's
\* output for the document as it was right before the dispatch; when the
\* formatter fails or returns the content unchanged, the document stays as it
\* is; also when the document is edited while the formatter call is pending.
C9_FormatReplacesCurrentDoc ==
    [][\A c \in pending \ pending' :
            /\ lastFormat' = "dispatched" =>
                    ~FormatFails(doc) /\ doc' = Format(doc)
            /\ (FormatFails(c) \/ Format(c) = c) => doc' = doc]_vars

=============================================================================
